---- MODULE Spec2Model ----
(***************************************************************************)
(* SolSight backend: the volunteer matching engine (MatchingService), the  *)
(* call records and their HTTP handlers, the WebRTC signaling relay        *)
(* (WebRTCService) and the reward transaction queue (BlockchainService).   *)
(*                                                                         *)
(* Time is counted in units of UnitMs milliseconds of Date.now().  A        *)
(* handler is one action; the places where the code waits on a timer (the  *)
(* delay between match attempts, the delays of the reward consumer loop)   *)
(* are separate steps, so other handlers interleave there.  The variable   *)
(* response holds what the last step returned to its caller.               *)
(*                                                                         *)
(* Modelling choices.  One iteration of the reward consumer loop is one    *)
(* step (its awaits on the ledger are not interleaved).  Rate limits are   *)
(* left out.  A socket the server terminated delivers its close event in   *)
(* a later step and no message in between.  JavaScript                     *)
(* undefined and NaN are the sentinels Undefined and NaN; the sort of      *)
(* findBestMatch with a NaN score is exact for at most two candidates.     *)
(* averageResponseTime 0 stands for an absent value; isOnline and skills   *)
(* are profile data that no backend handler writes.                        *)
(***************************************************************************)
EXTENDS Integers, Sequences, FiniteSets, Bags, TLC

\* ------------------------------------------------------------------ bounds
MaxTime == 4
MaxCalls == 2
MaxProcs == 2
MaxTx == 2
MaxConns == 3
MaxMonitored == 2

\* ------------------------------------------------------- program constants
maxAttempts == 3
UnitMs == 2 * 1000
attemptDelay == 2000 \div UnitMs
rematchTimeout == 60000 \div UnitMs
idleCap == 10
callPenaltyCap == 5
skillBonus == 10
responseBonus == 5
offlinePenalty == 20
fastResponseLimit == 30000
maxRetries == 3
oneDay == (24 * 60 * 60 * 1000) \div UnitMs
connectionMaxAge == (5 * 60 * 1000) \div UnitMs

\* config.rewards, in thousandths of a SOL.
shortCall == 10
mediumCall == 25
longCall == 50
perfectRating == 5
quickResponse == 3
calls10 == 100
calls50 == 500
calls100 == 1000
calls500 == 5000
calls1000 == 10000
shortLimit == 1800
mediumLimit == 3600

\* Date.now() at service start: far enough from 0 that a volunteer without a
\* recorded last call has the capped idle bonus, as with real epoch time.
Epoch == (5 * 3600 * 1000) \div UnitMs

\* Scores are kept as integers: ScoreScale times the JavaScript number.
ScoreScale == 5 * 360

Seekers == {"b1", "b2"}
VolunteerIds == <<"v1", "v2">>
Volunteers == {VolunteerIds[i] : i \in DOMAIN VolunteerIds}
UserIds == Seekers \cup Volunteers
CallIds == 1..MaxCalls
TxIds == 1..MaxTx
ConnIds == 1..MaxConns
None == "none"
\* The room id of a response that carries no call.
NoCall == 0

\* The messages of the MatchingError thrown by the matching engine.
NoVolunteersMsg == "No volunteers available at the moment"
NoSuitableMsg == "No suitable volunteers available"
TimeoutMsg == "Matching timeout - no volunteers found"
AcceptedMsg == "Match accepted successfully"
AlreadyQueuedMsg == "User is already in the matching queue"
\* The JavaScript values undefined and NaN where a number is expected: two
\* integers below every number the program computes.
NaN == 0 - 2^30
Undefined == NaN - 1

VARIABLES
  now,                \* Date.now()
  users,              \* the users collection
  calls,              \* the calls collection
  waitingQueue,       \* MatchingService.waitingQueue
  activeMatches,      \* MatchingService.activeMatches
  volunteerLastCall,  \* MatchingService.volunteerLastCall
  callCount,          \* MatchingService.callCount
  sm,                 \* bag of the attemptMatch invocations waiting between attempts
  response,           \* what the last matching or call step returned
  connections,        \* WebRTCService.connections
  rooms,              \* WebRTCService.rooms
  connectionCounter,  \* WebRTCService.connectionCounter
  heartbeat,          \* the running heartbeat timers, each with its connectionInfo.isAlive
  closing,            \* terminated sockets whose close event is still to come
  sent,               \* messages the last relay step sent: {to, type}
  received,           \* the message the last relay step handled: {from, type, targetUserId}
  txs,                \* the RewardTransaction objects, by id
  transactionQueue,   \* BlockchainService.transactionQueue (ids)
  failedTransactions, \* BlockchainService.failedTransactions (ids, in insertion order)
  isProcessingQueue,  \* BlockchainService.isProcessingQueue
  runningLoops,       \* processTransactionQueue invocations inside their try block
  consumer,           \* where the processTransactionQueue loop stands
  ledger,             \* successful sendSOL transfers, per transaction id
  serverKeypair       \* whether the funding account is configured

matchVars == <<waitingQueue, activeMatches, volunteerLastCall, callCount, sm>>

relayVars == <<connections, rooms, connectionCounter, heartbeat, closing, sent, received>>

rewardVars == <<txs, transactionQueue, failedTransactions, isProcessingQueue, runningLoops,
                consumer, ledger, serverKeypair>>

vars == <<now, users, calls, waitingQueue, activeMatches, volunteerLastCall,
          callCount, sm, response, connections, rooms, connectionCounter, heartbeat, closing,
          sent, received, txs,
          transactionQueue,
          failedTransactions, isProcessingQueue, runningLoops, consumer, ledger,
          serverKeypair>>

\* ----------------------------------------------------------- Map helpers
MapDelete(f, k) == [x \in DOMAIN f \ {k} |-> f[x]]

MapSet(f, k, v) == [x \in DOMAIN f \cup {k} |-> IF x = k THEN v ELSE f[x]]

Range(q) == {q[i] : i \in DOMAIN q}

Min(a, b) == IF a <= b THEN a ELSE b

Max(a, b) == IF a >= b THEN a ELSE b

\* ------------------------------------------------- database.js collaborators
\* Position of a volunteer document in the id order of the collection.
DocRank(v) == CHOOSE i \in DOMAIN VolunteerIds : VolunteerIds[i] = v

\* orderBy('reputationScore', 'desc'): a before b in the query result.
QueryBefore(a, b) ==
  \/ users[a].reputationScore > users[b].reputationScore
  \/ users[a].reputationScore = users[b].reputationScore /\ DocRank(a) > DocRank(b)

RECURSIVE OrderedDocs(_)
OrderedDocs(S) ==
  IF S = {} THEN <<>>
  ELSE LET first == CHOOSE a \in S : \A b \in S \ {a} : QueryBefore(a, b)
       IN <<first>> \o OrderedDocs(S \ {first})

\* getActiveVolunteers: active, available volunteers, best reputation first.
getActiveVolunteers ==
  OrderedDocs({v \in Volunteers : users[v].isActive /\ users[v].isAvailable})

\* createCall: the document added to the calls collection.
createCall(cs, id, blindUserId, volunteerUserId) ==
  MapSet(cs, id, [status |-> "pending", blindUserId |-> blindUserId,
                  volunteerUserId |-> volunteerUserId, roomId |-> id,
                  startedAt |-> now, feedbackText |-> None,
                  durationSeconds |-> Undefined, rating |-> Undefined])

\* updateCall: callRef.update(updateData) overwrites the fields updateData
\* names; a missing document (or an undefined id) makes the update throw and
\* changes nothing.
updateCall(cs, id, updateData) ==
  IF id \in DOMAIN cs
  THEN [cs EXCEPT ![id] = [f \in DOMAIN cs[id] |->
                            IF f \in DOMAIN updateData THEN updateData[f] ELSE cs[id][f]]]
  ELSE cs

\* authenticateToken: the caller exists and the account is not deactivated.
Authenticated(u) == users[u].isActive

\* requireRole(role), after authenticateToken.
HasRole(u, role) == Authenticated(u) /\ users[u].userType = role

\* ------------------------------------------------------------- scoring
\* this.volunteerLastCall.get(id) || 0 and this.callCount.get(id) || 0
LastCallOf(v) == IF v \in DOMAIN volunteerLastCall THEN volunteerLastCall[v] ELSE 0

CallCountOf(v) == IF v \in DOMAIN callCount THEN callCount[v] ELSE 0

\* Math.min(idleHours * 2, 10), times ScoreScale; idleHours = units * UnitMs / 3600000.
IdlePoints(v) ==
  Min((now - LastCallOf(v)) * ((2 * UnitMs * ScoreScale) \div 3600000),
      idleCap * ScoreScale)

\* averageResponseTime && averageResponseTime < 30000 (0 stands for the absent field)
HasFastResponse(v) ==
  users[v].averageResponseTime # 0 /\ users[v].averageResponseTime < fastResponseLimit

\* The sum calculateVolunteerScore builds before its final Math.max.
RawScore(v, helpCategory) ==
  IF users[v].reputationScore = NaN THEN NaN ELSE
  users[v].reputationScore * (ScoreScale \div 10)
  + IdlePoints(v)
  - Min(CallCountOf(v), callPenaltyCap) * ScoreScale
  + (IF helpCategory \in users[v].skills THEN skillBonus * ScoreScale ELSE 0)
  + (IF HasFastResponse(v) THEN responseBonus * ScoreScale ELSE 0)
  - (IF users[v].isOnline THEN 0 ELSE offlinePenalty * ScoreScale)

\* Math.max(score, 0); Math.max of NaN is NaN.
calculateVolunteerScore(v, helpCategory) ==
  IF RawScore(v, helpCategory) = NaN THEN NaN ELSE Max(RawScore(v, helpCategory), 0)

\* b.matchScore - a.matchScore > 0: the comparator moves b before a.  A
\* difference of NaN counts as 0 and leaves the two in place.
SortsBefore(b, a, helpCategory) ==
  /\ calculateVolunteerScore(a, helpCategory) # NaN
  /\ calculateVolunteerScore(b, helpCategory) # NaN
  /\ calculateVolunteerScore(b, helpCategory) > calculateVolunteerScore(a, helpCategory)

\* scoredVolunteers.sort((a, b) => b.matchScore - a.matchScore): a stable sort,
\* so the first element is the earliest candidate with the highest score.
BestIndex(cands, helpCategory) ==
  CHOOSE i \in DOMAIN cands :
    /\ \A j \in DOMAIN cands : ~SortsBefore(cands[j], cands[i], helpCategory)
    /\ \A j \in 1..(i - 1) : SortsBefore(cands[i], cands[j], helpCategory)

\* findBestMatch: the volunteer selected, or the error it throws.
findBestMatch(helpCategory) ==
  LET cands == getActiveVolunteers
  IN IF Len(cands) = 0 THEN [ok |-> FALSE, error |-> NoVolunteersMsg, volunteer |-> None]
     ELSE LET best == cands[BestIndex(cands, helpCategory)]
          IN IF /\ calculateVolunteerScore(best, helpCategory) # NaN
                /\ calculateVolunteerScore(best, helpCategory) <= 0
             THEN [ok |-> FALSE, error |-> NoSuitableMsg, volunteer |-> None]
             ELSE [ok |-> TRUE, error |-> None, volunteer |-> best]

\* -------------------------------------------------------- MatchingService
\* setVolunteerAvailability: reads the user and logs; it writes nothing.
setVolunteerAvailability(us, volunteerId, isAvailable) == us

\* The frame of an attemptMatch invocation: its arguments and loop counter.
Invocation(kind, blindUserId, helpCategory, timeout) ==
  [kind |-> kind, user |-> blindUserId, helpCategory |-> helpCategory,
   timeout |-> timeout, attempt |-> 1, wakeAt |-> 0]

\* A step that returns nothing to report.
NoResponse ==
  [kind |-> None, user |-> None, helpCategory |-> None, result |-> None,
   attempt |-> 0, roomId |-> NoCall, volunteer |-> None, count |-> 0]

\* What an attemptMatch invocation returns (or throws) to its caller.
Response(r, result, roomId, volunteer) ==
  [kind |-> r.kind, user |-> r.user, helpCategory |-> r.helpCategory,
   result |-> result, attempt |-> r.attempt, roomId |-> roomId,
   volunteer |-> volunteer, count |-> 0]

\* What a handler other than a matching request returns.
Reply(kind, user, result) ==
  [NoResponse EXCEPT !.kind = kind, !.user = user, !.result = result]

\* The waitingInfo object of startMatching.
WaitingInfo(helpCategory, timeoutMs, status) ==
  [helpCategory |-> helpCategory, timeout |-> now + timeoutMs, status |-> status]

\* What one pass of the attemptMatch loop body does: the timeout check, then
\* findBestMatch.
AttemptOutcome(r) ==
  IF now > r.timeout THEN TimeoutMsg
  ELSE LET f == findBestMatch(r.helpCategory)
       IN IF f.ok THEN "Matched" ELSE f.error

\* Line 320: the entry is deleted when the timeout check fails.
QueueAfterError(q, r, err) == IF err = TimeoutMsg THEN MapDelete(q, r.user) ELSE q

\* Line 359: the entry is removed after a successful match.
QueueAfterMatch(q, r) == MapDelete(q, r.user)

\* Lines 379-382 and 304-307: the last attempt's error is rethrown, attemptMatch
\* and then startMatching's catch delete the entry.
QueueAfterGiveUp(q, r) == MapDelete(q, r.user)

\* Lines 378-386: the catch of the loop body decides between giving up and
\* waiting for the next attempt.
GivesUp(r, err) == r.attempt = maxAttempts

\* One attempt of attemptMatch by the invocation r (attempt number already
\* counted), which sees queue q, calls cs and matches am; others is the bag of
\* the other waiting invocations.
AttemptMatch(r, q, cs, am, others) ==
  LET out == AttemptOutcome(r)
      v == findBestMatch(r.helpCategory).volunteer
      id == Cardinality(DOMAIN cs) + 1
  IN IF out = "Matched"
     THEN /\ id \in CallIds
          /\ calls' = createCall(cs, id, r.user, v)
          /\ users' = setVolunteerAvailability(users, v, FALSE)
          /\ activeMatches' = MapSet(am, id,
                 [callId |-> id, blindUserId |-> r.user, volunteerUserId |-> v,
                  roomId |-> id, status |-> "matched", matchedAt |-> now])
          /\ volunteerLastCall' = MapSet(volunteerLastCall, v, now)
          /\ callCount' = MapSet(callCount, v, CallCountOf(v) + 1)
          /\ waitingQueue' = QueueAfterMatch(q, r)
          /\ sm' = others
          /\ response' = Response(r, "Matched", id, v)
     ELSE /\ calls' = cs
          /\ activeMatches' = am
          /\ UNCHANGED <<users, volunteerLastCall, callCount>>
          /\ IF GivesUp(r, out)
             THEN /\ waitingQueue' = QueueAfterGiveUp(QueueAfterError(q, r, out), r)
                  /\ sm' = others
                  /\ response' = Response(r, out, NoCall, None)
             ELSE /\ BagCardinality(others) < MaxProcs
                  /\ waitingQueue' = QueueAfterError(q, r, out)
                  /\ sm' = others (+) SetToBag({[r EXCEPT !.wakeAt = now + attemptDelay]})
                  /\ response' = NoResponse

\* Lines 304-307: startMatching's catch after the AlreadyQueued error.
QueueAfterAlreadyQueued(q, blindUserId) == MapDelete(q, blindUserId)

\* startMatching(blindUserId, {helpCategory, timeoutMs}) up to its first wait.
StartMatching(blindUserId, helpCategory, timeoutMs) ==
  /\ HasRole(blindUserId, "blind")
  /\ LET r == Invocation("start", blindUserId, helpCategory, now + timeoutMs)
     IN IF blindUserId \in DOMAIN waitingQueue
        THEN /\ waitingQueue' = QueueAfterAlreadyQueued(waitingQueue, blindUserId)
             /\ response' = Response([r EXCEPT !.attempt = 0], AlreadyQueuedMsg, NoCall,
                                   None)
             /\ UNCHANGED <<users, activeMatches, volunteerLastCall, callCount, calls,
                            sm>>
        ELSE AttemptMatch(r,
                          MapSet(waitingQueue, blindUserId,
                                 WaitingInfo(helpCategory, timeoutMs, "waiting")),
                          calls, activeMatches, sm)
  /\ UNCHANGED <<now, relayVars, rewardVars>>

\* The setTimeout of line 385 fires and the loop runs its next attempt.
RetryMatch(r) ==
  /\ BagIn(r, sm)
  /\ now >= r.wakeAt
  /\ AttemptMatch([r EXCEPT !.attempt = @ + 1], waitingQueue, calls, activeMatches,
                  sm (-) SetToBag({r}))
  /\ UNCHANGED <<now, relayVars, rewardVars>>

cancelMatching(blindUserId) ==
  /\ HasRole(blindUserId, "blind")
  /\ blindUserId \in DOMAIN waitingQueue
  /\ waitingQueue' = MapDelete(waitingQueue, blindUserId)
  /\ response' = Reply("cancel", blindUserId, "cancelled")
  /\ UNCHANGED <<now, users, activeMatches, volunteerLastCall, callCount, calls,
                 sm, relayVars, rewardVars>>

acceptMatch(roomId, volunteerId) ==
  /\ HasRole(volunteerId, "volunteer")
  /\ roomId \in DOMAIN activeMatches
  /\ activeMatches[roomId].volunteerUserId = volunteerId
  /\ activeMatches' = [activeMatches EXCEPT ![roomId].status = "accepted"]
  /\ calls' = updateCall(calls, activeMatches[roomId].callId, [status |-> "active", startedAt |-> now])
  /\ response' = [Reply("accept", volunteerId, AcceptedMsg) EXCEPT !.roomId = roomId]
  /\ UNCHANGED <<now, users, waitingQueue, volunteerLastCall, callCount, sm, relayVars,
                 rewardVars>>

\* declineMatch: the call fails, the match is dropped and attemptMatch is started
\* for the help-seeker without being awaited; its first attempt runs at once.
declineMatch(roomId, volunteerId) ==
  /\ HasRole(volunteerId, "volunteer")
  /\ roomId \in DOMAIN activeMatches
  /\ activeMatches[roomId].volunteerUserId = volunteerId
  /\ LET m == activeMatches[roomId]
     IN AttemptMatch(Invocation("rematch", m.blindUserId, "general", now + rematchTimeout),
                     waitingQueue,
                     updateCall(calls, m.callId,
                                [status |-> "failed", feedbackText |-> "declined"]),
                     MapDelete(activeMatches, roomId), sm)
  /\ UNCHANGED <<now, relayVars, rewardVars>>

endCall(roomId, endedBy) ==
  /\ Authenticated(endedBy)
  /\ roomId \in DOMAIN activeMatches
  /\ calls' = updateCall(calls, activeMatches[roomId].callId,
                         [status |-> "completed",
                          durationSeconds |->
                            ((now - activeMatches[roomId].matchedAt) * UnitMs) \div 1000])
  /\ users' = setVolunteerAvailability(users, activeMatches[roomId].volunteerUserId, TRUE)
  /\ activeMatches' = MapDelete(activeMatches, roomId)
  /\ response' = NoResponse
  /\ UNCHANGED <<now, waitingQueue, volunteerLastCall, callCount, sm, relayVars,
                 rewardVars>>

\* cleanup(): expired queue entries and matches older than 24 hours.
QueueAfterCleanup(q) == [u \in {x \in DOMAIN q : ~(now > q[x].timeout)} |-> q[u]]

cleanup ==
  /\ waitingQueue' = QueueAfterCleanup(waitingQueue)
  /\ activeMatches' =
       [r \in {x \in DOMAIN activeMatches :
                 ~(activeMatches[x].matchedAt < now - oneDay)} |-> activeMatches[r]]
  /\ UNCHANGED <<now, users, volunteerLastCall, callCount, calls, sm, relayVars,
                 rewardVars>>
  /\ response' = Reply("cleanup", None, "swept")

\* PUT /api/users/availability
UpdateAvailability(v, isAvailable) ==
  /\ Authenticated(v)
  /\ users[v].isAvailable # isAvailable
  /\ users' = [users EXCEPT ![v].isAvailable = isAvailable]
  /\ UNCHANGED <<now, waitingQueue, activeMatches, volunteerLastCall, callCount,
                 calls, sm, relayVars, rewardVars>>
  /\ response' = NoResponse

\* Date.now() advances.
Tick ==
  /\ now < Epoch + MaxTime
  /\ now' = now + 1
  /\ UNCHANGED <<users, waitingQueue, activeMatches, volunteerLastCall, callCount,
                 calls, sm, relayVars, rewardVars>>
  /\ response' = NoResponse

\* ------------------------------------------------------ BlockchainService
\* A field of a document, undefined when the document does not have it.
Field(doc, f) == IF f \in DOMAIN doc THEN doc[f] ELSE Undefined

\* a + b on JavaScript numbers: undefined or NaN operands give NaN.
JsAdd(a, b) == IF {a, b} \cap {Undefined, NaN} # {} THEN NaN ELSE a + b

\* A reward whose duration tiers exclude their upper ends.
calculateRewardAmountBelow(callData) ==
  (IF callData.durationSeconds # Undefined /\ callData.durationSeconds < shortLimit
     THEN shortCall
   ELSE IF callData.durationSeconds # Undefined /\ callData.durationSeconds < mediumLimit
     THEN mediumCall
   ELSE longCall)
  + (IF callData.rating = 5 THEN perfectRating ELSE 0)
  + (IF Field(callData, "responseTimeMs") \notin {Undefined, 0}
        /\ Field(callData, "responseTimeMs") < fastResponseLimit
     THEN quickResponse ELSE 0)

\* calculateRewardAmount: undefined <= 1800 is false, so a call without a
\* duration falls through to the long-call amount.
calculateRewardAmount(callData) ==
  (IF callData.durationSeconds # Undefined /\ callData.durationSeconds <= shortLimit
     THEN shortCall
   ELSE IF callData.durationSeconds # Undefined /\ callData.durationSeconds <= mediumLimit
     THEN mediumCall
   ELSE longCall)
  + (IF callData.rating = 5 THEN perfectRating ELSE 0)
  + (IF Field(callData, "responseTimeMs") \notin {Undefined, 0}
        /\ Field(callData, "responseTimeMs") < fastResponseLimit
     THEN quickResponse ELSE 0)

\* calculateMilestoneReward: the reward for a lifetime count of exactly 10, 50,
\* 100, 500 or 1000 calls.
calculateMilestoneReward(us, userId) ==
  IF us[userId].userType # "volunteer" THEN 0
  ELSE CASE us[userId].totalCalls = 10 -> calls10
         [] us[userId].totalCalls = 50 -> calls50
         [] us[userId].totalCalls = 100 -> calls100
         [] us[userId].totalCalls = 500 -> calls500
         [] us[userId].totalCalls = 1000 -> calls1000
         [] OTHER -> 0

\* The fields of the service the queue operations read and write.
RewardState ==
  [txs |-> txs, queue |-> transactionQueue, failed |-> failedTransactions,
   flag |-> isProcessingQueue, loops |-> runningLoops, consumer |-> consumer,
   ledger |-> ledger]

SetRewardState(R) ==
  /\ txs' = R.txs
  /\ transactionQueue' = R.queue
  /\ failedTransactions' = R.failed
  /\ isProcessingQueue' = R.flag
  /\ runningLoops' = R.loops
  /\ consumer' = R.consumer
  /\ ledger' = R.ledger

Idle == [pc |-> "idle", tx |-> 0]

\* A loop that ends after the transaction in hand, whatever is left in the
\* queue.
LoopExit(R) == [R EXCEPT !.flag = FALSE, !.loops = @ - 1, !.consumer = Idle]

\* The while test of processTransactionQueue: the loop takes the head of the
\* queue and goes to fetch the balance, or ends and the finally block clears the
\* flag.
LoopHead(R) ==
  IF Len(R.queue) > 0
  THEN [R EXCEPT !.queue = Tail(@), !.consumer = [pc |-> "hand", tx |-> Head(R.queue)]]
  ELSE [R EXCEPT !.flag = FALSE, !.loops = @ - 1, !.consumer = Idle]

\* A processTransactionQueue that enters its loop without looking at the flag.
processTransactionQueueUnguarded(R) ==
  LoopHead([R EXCEPT !.flag = TRUE, !.loops = @ + 1])

\* processTransactionQueue() up to its first await.
processTransactionQueue(R) ==
  IF R.flag \/ ~serverKeypair THEN R
  ELSE LoopHead([R EXCEPT !.flag = TRUE, !.loops = @ + 1])

\* queueRewardTransaction, for a user the wallet checks let through.
queueRewardTransaction(R, userId, amount, callId, type) ==
  LET id == Cardinality(DOMAIN R.txs) + 1
  IN processTransactionQueue(
       [R EXCEPT !.txs = MapSet(@, id, [userId |-> userId, amount |-> amount,
                                        callId |-> callId, type |-> type,
                                        status |-> "queued", retryCount |-> 0]),
                 !.queue = Append(@, id),
                 !.ledger = MapSet(@, id, 0)])

\* Whether processCompletedCall gets past its checks and the wallet checks of
\* queueRewardTransaction and updateUserReputation.
CanProcessCompletedCall(cs, us, callId) ==
  /\ callId \in DOMAIN cs
  /\ cs[callId].status = "completed"
  /\ us[cs[callId].volunteerUserId].hasWallet
  /\ calculateRewardAmount(cs[callId]) > 0

\* The rewards processCompletedCall queues.
RewardsOfCompletedCall(cs, us, R, callId) ==
  LET v == cs[callId].volunteerUserId
      R1 == queueRewardTransaction(R, v, calculateRewardAmount(cs[callId]), callId,
                                   "call_completion")
  IN IF calculateMilestoneReward(us, v) > 0
     THEN queueRewardTransaction(R1, v, calculateMilestoneReward(us, v), callId,
                                 "milestone")
     ELSE R1

\* The user document after processCompletedCall: its statistics and reputation
\* are computed from fields of the call document.
UserAfterCompletedCall(cs, us, callId) ==
  [us EXCEPT ![cs[callId].volunteerUserId] =
     [@ EXCEPT !.totalCalls = JsAdd(Field(cs[callId], "totalCalls"), 1),
               !.reputationScore = JsAdd(Field(cs[callId], "reputationScore"), 10)]]

\* processCompletedCall(callId) as called by a handler that catches its errors:
\* whether it succeeded, and the users and the service it leaves.
processCompletedCall(cs, us, R, callId) ==
  IF CanProcessCompletedCall(cs, us, callId)
  THEN [ok |-> TRUE, users |-> UserAfterCompletedCall(cs, us, callId),
        reward |-> RewardsOfCompletedCall(cs, us, R, callId)]
  ELSE [ok |-> FALSE, users |-> us, reward |-> R]

\* One pass of the loop body for the transaction in hand.  The outcome is the
\* environment's: the balance is short, the balance query or the transfer
\* fails, the transfer succeeds and a bookkeeping write fails, or all succeed.
Outcomes == {"insufficient", "error", "recordError", "ok"}

\* A consumer that allows one retry more before it gives a transaction up.
RequeueOnceMore(R, t) ==
  LET n == R.txs[t].retryCount + 1
      R1 == [R EXCEPT !.txs[t].retryCount = n]
  IN IF n <= maxRetries
     THEN [R1 EXCEPT !.queue = Append(@, t)]
     ELSE [R1 EXCEPT !.failed = Append(@, t)]

\* A consumer that gives a transaction up one retry early.
RequeueOnceLess(R, t) ==
  LET n == R.txs[t].retryCount + 1
      R1 == [R EXCEPT !.txs[t].retryCount = n]
  IN IF n < maxRetries - 1
     THEN [R1 EXCEPT !.queue = Append(@, t)]
     ELSE [R1 EXCEPT !.failed = Append(@, t)]

\* transaction.retryCount++, then back to the queue or to the failed set.
Requeue(R, t) ==
  LET n == R.txs[t].retryCount + 1
      R1 == [R EXCEPT !.txs[t].retryCount = n]
  IN IF n < maxRetries
     THEN [R1 EXCEPT !.queue = Append(@, t)]
     ELSE [R1 EXCEPT !.failed = Append(@, t)]

\* sendSOL returned a signature: the transfer happened, the object is completed.
Transferred(R, t) ==
  [R EXCEPT !.txs[t].status = "completed", !.ledger[t] = @ + 1]

ConsumerStep(outcome) ==
  /\ consumer.pc = "hand"
  /\ LET t == consumer.tx
         R == RewardState
     IN CASE outcome = "insufficient" ->
               IF R.txs[t].retryCount + 1 < maxRetries
               THEN SetRewardState([Requeue(R, t) EXCEPT !.consumer = [pc |-> "wait60", tx |-> 0]])
               ELSE SetRewardState(LoopHead(Requeue(R, t)))
          [] outcome = "error" ->
               SetRewardState([Requeue(R, t) EXCEPT !.consumer = [pc |-> "delay1", tx |-> 0]])
          [] outcome = "recordError" ->
               SetRewardState([Requeue(Transferred(R, t), t)
                                 EXCEPT !.consumer = [pc |-> "delay1", tx |-> 0]])
          [] outcome = "ok" ->
               SetRewardState([Transferred(R, t)
                                 EXCEPT !.consumer = [pc |-> "delay1", tx |-> 0]])
  /\ response' = NoResponse
  /\ UNCHANGED <<now, users, calls, matchVars, relayVars, serverKeypair>>

\* One of the loop's timers (60 s after a short balance, 1 s after a pass) fires.
ConsumerWake ==
  /\ consumer.pc \in {"wait60", "delay1"}
  /\ SetRewardState(LoopHead(RewardState))
  /\ response' = NoResponse
  /\ UNCHANGED <<now, users, calls, matchVars, relayVars, serverKeypair>>

\* A retry that puts every failed transaction back on the queue, whatever its
\* retryCount.
retryEveryFailedTransaction ==
  /\ LET R == RewardState
     IN /\ SetRewardState(processTransactionQueue(
             [R EXCEPT !.failed = << >>,
                       !.txs = [t \in DOMAIN @ |->
                                  IF t \in Range(failedTransactions)
                                  THEN [@[t] EXCEPT !.retryCount = 0]
                                  ELSE @[t]],
                       !.queue = @ \o failedTransactions]))
        /\ response' = [Reply("retry-failed", None, "retried")
                          EXCEPT !.count = Len(failedTransactions)]
  /\ UNCHANGED <<now, users, calls, matchVars, relayVars, serverKeypair>>

\* retryFailedTransactions: by the 60-second interval or by an administrator.
retryFailedTransactions ==
  /\ LET Retryable(t) == txs[t].retryCount < maxRetries
         Kept(t) == ~Retryable(t)
         retryableTransactions == SelectSeq(failedTransactions, Retryable)
         R == RewardState
     IN SetRewardState(processTransactionQueue(
          [R EXCEPT !.failed = SelectSeq(@, Kept),
                    !.txs = [t \in DOMAIN @ |->
                               IF Retryable(t) /\ t \in Range(failedTransactions)
                               THEN [@[t] EXCEPT !.retryCount = 0]
                               ELSE @[t]],
                    !.queue = @ \o retryableTransactions]))
        /\ response' = [Reply("retry-failed", None, "retried")
                          EXCEPT !.count = Len(retryableTransactions)]
  /\ UNCHANGED <<now, users, calls, matchVars, relayVars, serverKeypair>>

\* The 30-second interval calls processTransactionQueue.
QueueTick ==
  /\ SetRewardState(processTransactionQueue(RewardState))
  /\ response' = NoResponse
  /\ UNCHANGED <<now, users, calls, matchVars, relayVars, serverKeypair>>

\* POST /rewards/distribute: any authenticated caller queues a reward of a
\* positive amount for a user; queueRewardTransaction rejects a user without
\* a wallet address.
PostDistribute(u, userId, amount, rewardType) ==
  /\ Authenticated(u)
  /\ users[userId].hasWallet
  /\ amount > 0
  /\ LET R == queueRewardTransaction(RewardState, userId, amount, NoCall, rewardType)
     IN /\ DOMAIN R.txs \subseteq TxIds
        /\ SetRewardState(R)
  /\ response' = NoResponse
  /\ UNCHANGED <<now, users, calls, matchVars, relayVars, serverKeypair>>

\* ------------------------------------------------------------ routes/calls.js
CallStatuses == {"pending", "active", "completed", "failed"}

IsParticipant(u, call) == u \in {call.blindUserId, call.volunteerUserId}

\* PUT /api/calls/:callId with a body the updateCall schema accepts.
PutCall(u, callId, updateData) ==
  /\ Authenticated(u)
  /\ callId \in DOMAIN calls
  /\ IsParticipant(u, calls[callId])
  /\ LET cs == updateCall(calls, callId, updateData)
         p == IF "status" \in DOMAIN updateData /\ updateData.status = "completed"
              THEN processCompletedCall(cs, users, RewardState, callId)
              ELSE [ok |-> FALSE, users |-> users, reward |-> RewardState]
     IN /\ DOMAIN p.reward.txs \subseteq TxIds
        /\ calls' = cs
        /\ users' = p.users
        /\ SetRewardState(p.reward)
  /\ response' = NoResponse
  /\ UNCHANGED <<now, matchVars, relayVars, serverKeypair>>

\* The reputation POST /:callId/end computes from a rating.
RatedReputation(reputationScore, rating) ==
  Max(0, (IF reputationScore \in {NaN, Undefined} THEN 0 ELSE reputationScore)
         + 10
         + (IF rating >= 4 THEN (rating - 3) * 5 ELSE 0)
         - (IF rating <= 2 THEN (3 - rating) * 5 ELSE 0))

\* POST /api/calls/:callId/end; rating is Undefined when the body has none.
PostEndCall(u, callId, rating) ==
  /\ Authenticated(u)
  /\ callId \in DOMAIN calls
  /\ IsParticipant(u, calls[callId])
  /\ rating # Undefined => users[u].userType = "blind"
  /\ LET existingCall == calls[callId]
         v == existingCall.volunteerUserId
         cs == updateCall(calls, callId,
                 [status |-> "completed",
                  durationSeconds |-> ((now - existingCall.startedAt) * UnitMs) \div 1000,
                  rating |-> IF rating # Undefined THEN rating ELSE existingCall.rating])
         p == IF existingCall.status # "completed"
              THEN processCompletedCall(cs, users, RewardState, callId)
              ELSE [ok |-> FALSE, users |-> users, reward |-> RewardState]
     IN /\ DOMAIN p.reward.txs \subseteq TxIds
        /\ calls' = cs
        /\ users' = IF p.ok /\ rating # Undefined
                     THEN [p.users EXCEPT ![v].reputationScore = RatedReputation(@, rating)]
                     ELSE p.users
        /\ SetRewardState(p.reward)
  /\ response' = NoResponse
  /\ UNCHANGED <<now, matchVars, relayVars, serverKeypair>>

\* ----------------------------------------------------------- WebRTCService
\* connectionInfo.roomId = null
NoRoom == NoCall

\* A message of a connection as handleMessage dispatches it; connection events
\* carry none.
NoMessage == [from |-> NoRoom, type |-> None, targetUserId |-> None]

Message(connectionId, type, targetUserId) ==
  [from |-> connectionId, type |-> type, targetUserId |-> targetUserId]

\* sendMessage: nothing is sent to a connection that is not in the table or
\* whose socket is not open.
sendMessage(conns, out, connectionId, type) ==
  IF connectionId \in DOMAIN conns /\ connectionId \notin closing
  THEN out \cup {[to |-> connectionId, type |-> type]}
  ELSE out

\* sendError: an error message to one connection.
sendError(conns, out, connectionId) == sendMessage(conns, out, connectionId, "error")

\* broadcastToRoom: to every participant's connection but the excluded one.
broadcastToRoom(conns, rs, out, roomId, type, excludeConnectionId) ==
  IF roomId \notin DOMAIN rs THEN out
  ELSE out \cup
       {[to |-> rs[roomId].participants[u].connectionId, type |-> type] :
          u \in {x \in DOMAIN rs[roomId].participants :
                   /\ rs[roomId].participants[x].connectionId # excludeConnectionId
                   /\ rs[roomId].participants[x].connectionId \in DOMAIN conns
                   /\ rs[roomId].participants[x].connectionId \notin closing}}

\* A removal that keeps the room in the table when its last participant goes.
RoomsKeptWhenEmpty(rs, roomId, userId) ==
  [rs EXCEPT ![roomId].participants = MapDelete(@, userId),
             ![roomId].status = IF DOMAIN rs[roomId].participants \ {userId} = {}
                                THEN @ ELSE "waiting"]

\* room.participants.delete(userId), then the room is deleted when it is empty
\* and set to waiting when it is not.
RoomsWithout(rs, roomId, userId) ==
  IF DOMAIN rs[roomId].participants \ {userId} = {}
  THEN MapDelete(rs, roomId)
  ELSE [rs EXCEPT ![roomId].participants = MapDelete(@, userId),
                  ![roomId].status = "waiting"]

\* The participants map after delete(userId), as the broadcast sees it.
RoomsDuringRemoval(rs, roomId, userId) ==
  [rs EXCEPT ![roomId].participants = MapDelete(@, userId)]

\* handleLeaveRoom: the connections, rooms and messages it leaves.
LeaveRoom(conns, rs, out, connectionId) ==
  IF connectionId \notin DOMAIN conns \/ conns[connectionId].roomId = NoRoom
  THEN [connections |-> conns, rooms |-> rs, sent |-> out]
  ELSE LET roomId == conns[connectionId].roomId
           userId == conns[connectionId].userId
           left == [conns EXCEPT ![connectionId].roomId = NoRoom]
       IN IF roomId \in DOMAIN rs
          THEN [connections |-> left,
                rooms |-> RoomsWithout(rs, roomId, userId),
                sent |-> sendMessage(conns,
                           broadcastToRoom(conns, RoomsDuringRemoval(rs, roomId, userId),
                                           out, roomId, "user_left", connectionId),
                           connectionId, "room_left")]
          ELSE [connections |-> left, rooms |-> rs,
                sent |-> sendMessage(conns, out, connectionId, "room_left")]

\* handleConnection: a socket is accepted.
handleConnection ==
  /\ connectionCounter + 1 \in ConnIds
  /\ connectionCounter' = connectionCounter + 1
  /\ connections' = MapSet(connections, connectionCounter + 1,
                           [userId |-> None, userType |-> None, roomId |-> NoRoom,
                            connectedAt |-> now])
  /\ heartbeat' = MapSet(heartbeat, connectionCounter + 1, TRUE)
  /\ UNCHANGED closing
  /\ sent' = {[to |-> connectionCounter + 1, type |-> "connected"]}
  /\ received' = NoMessage
  /\ response' = NoResponse
  /\ UNCHANGED <<now, users, calls, matchVars, rooms, rewardVars>>

\* handleJoinRoom for a message with all its fields.
handleJoinRoom(connectionId, roomId, userId, userType) ==
  /\ connectionId \in DOMAIN connections \ closing
  /\ LET L == LeaveRoom(connections, rooms, {}, connectionId)
         room == IF roomId \in DOMAIN L.rooms THEN L.rooms[roomId]
                 ELSE [participants |-> << >>, status |-> "waiting"]
         joined == MapSet(room.participants, userId,
                          [connectionId |-> connectionId, userType |-> userType])
         rs == MapSet(L.rooms, roomId,
                      [participants |-> joined,
                       status |-> IF Cardinality(DOMAIN joined) = 2 THEN "ready"
                                  ELSE room.status])
         conns == [L.connections EXCEPT ![connectionId].userId = userId,
                                        ![connectionId].userType = userType,
                                        ![connectionId].roomId = roomId]
     IN /\ rooms' = rs
        /\ connections' = conns
        /\ sent' = sendMessage(conns,
                      broadcastToRoom(conns, rs, L.sent, roomId, "user_joined", connectionId),
                      connectionId, "room_joined")
  /\ received' = Message(connectionId, "join_room", None)
  /\ response' = NoResponse
  /\ UNCHANGED <<now, users, calls, matchVars, connectionCounter, heartbeat, closing,
                 rewardVars>>

\* A leave_room message.
handleLeaveRoom(connectionId) ==
  /\ connectionId \in DOMAIN connections \ closing
  /\ LET L == LeaveRoom(connections, rooms, {}, connectionId)
     IN /\ connections' = L.connections
        /\ rooms' = L.rooms
        /\ sent' = L.sent
  /\ received' = Message(connectionId, "leave_room", None)
  /\ response' = NoResponse
  /\ UNCHANGED <<now, users, calls, matchVars, connectionCounter, heartbeat, closing,
                 rewardVars>>

\* handleCallStatus for a message with a status.  No code sets room.callId, so
\* the call update is addressed to the document id undefined.
handleCallStatus(connectionId, status) ==
  /\ connectionId \in DOMAIN connections \ closing
  /\ LET roomId == connections[connectionId].roomId
     IN IF roomId = NoRoom \/ roomId \notin DOMAIN rooms
        THEN /\ sent' = sendError(connections, {}, connectionId)
             /\ UNCHANGED <<rooms, calls>>
        ELSE /\ rooms' = [rooms EXCEPT ![roomId].status = status]
             /\ calls' = IF status \in {"completed", "failed", "ended"}
                          THEN updateCall(calls, Field(rooms[roomId], "callId"),
                                 [status |-> IF status = "completed" THEN "completed"
                                             ELSE "failed",
                                  feedbackText |-> "Call ended via WebRTC"])
                          ELSE calls
             /\ sent' = broadcastToRoom(connections, rooms, {}, roomId, "call_status",
                                         connectionId)
  /\ received' = Message(connectionId, "call_status", None)
  /\ response' = NoResponse
  /\ UNCHANGED <<now, users, matchVars, connections, connectionCounter, heartbeat,
                 closing, rewardVars>>

\* A relay that forwards a signal with an unknown target to the whole room.
handleSignalToRoom(connectionId, type, targetUserId) ==
  /\ connectionId \in DOMAIN connections \ closing
  /\ LET roomId == connections[connectionId].roomId
     IN sent' =
          IF roomId = NoRoom \/ targetUserId = None \/ roomId \notin DOMAIN rooms
          THEN sendError(connections, {}, connectionId)
          ELSE IF targetUserId \notin DOMAIN rooms[roomId].participants
               THEN broadcastToRoom(connections, rooms, {}, roomId, type, connectionId)
               ELSE sendMessage(connections, {},
                                rooms[roomId].participants[targetUserId].connectionId,
                                type)
  /\ received' = Message(connectionId, type, targetUserId)
  /\ response' = NoResponse
  /\ UNCHANGED <<now, users, calls, matchVars, connections, rooms, connectionCounter,
                 heartbeat, closing, rewardVars>>

\* handleOffer, handleAnswer and handleIceCandidate (type says which): the
\* payload is forwarded to the connection of the target participant of the
\* sender's room; every failure sends an error to the sender. targetUserId None
\* is a message without that field; a roomId whose room is gone makes
\* room.participants throw, which the handler's catch reports likewise.
handleSignal(connectionId, type, targetUserId) ==
  /\ connectionId \in DOMAIN connections \ closing
  /\ LET roomId == connections[connectionId].roomId
     IN sent' =
          IF \/ roomId = NoRoom
             \/ targetUserId = None
             \/ roomId \notin DOMAIN rooms
             \/ targetUserId \notin DOMAIN rooms[roomId].participants
          THEN sendError(connections, {}, connectionId)
          ELSE sendMessage(connections, {},
                           rooms[roomId].participants[targetUserId].connectionId, type)
  /\ received' = Message(connectionId, type, targetUserId)
  /\ response' = NoResponse
  /\ UNCHANGED <<now, users, calls, matchVars, connections, rooms, connectionCounter,
                 heartbeat, closing, rewardVars>>

\* The status the room object has when handleDisconnection tests it: waiting
\* when a participant remains, unchanged when the room was emptied and deleted.
StatusAfterRemoval(rs, roomId, userId) ==
  IF DOMAIN rs[roomId].participants \ {userId} = {} THEN rs[roomId].status
  ELSE "waiting"

\* handleDisconnection: the socket of a connection closed, by the client or
\* after the server terminated it.  It returns at once for a connection that
\* is not in the table.
handleDisconnection(connectionId) ==
  /\ connectionId \in DOMAIN connections \cup closing
  /\ closing' = closing \ {connectionId}
  /\ IF connectionId \notin DOMAIN connections
     THEN /\ sent' = {}
          /\ UNCHANGED <<connections, rooms, calls, heartbeat>>
     ELSE /\ LET roomId == connections[connectionId].roomId
                 userId == connections[connectionId].userId
             IN IF roomId # NoRoom /\ roomId \in DOMAIN rooms
                THEN /\ rooms' = RoomsWithout(rooms, roomId, userId)
                     /\ sent' = broadcastToRoom(connections,
                                   RoomsDuringRemoval(rooms, roomId, userId), {},
                                   roomId, "user_disconnected", connectionId)
                     /\ calls' = IF StatusAfterRemoval(rooms, roomId, userId)
                                       \in {"active", "connected"}
                                  THEN updateCall(calls, Field(rooms[roomId], "callId"),
                                         [status |-> "failed",
                                          feedbackText |-> "User disconnected"])
                                  ELSE calls
                ELSE /\ sent' = {}
                     /\ UNCHANGED <<rooms, calls>>
          /\ heartbeat' = MapDelete(heartbeat, connectionId)
          /\ connections' = MapDelete(connections, connectionId)
  /\ received' = NoMessage
  /\ response' = NoResponse
  /\ UNCHANGED <<now, users, matchVars, connectionCounter, rewardVars>>

\* The callback of a connection's heartbeat timer: a connection that has not
\* answered the last ping is terminated and the timer cleared; otherwise
\* isAlive is reset and a ping sent.  terminate() on a socket that is already
\* closed does nothing.
heartbeatInterval(connectionId) ==
  /\ connectionId \in DOMAIN heartbeat
  /\ IF ~heartbeat[connectionId]
     THEN /\ heartbeat' = MapDelete(heartbeat, connectionId)
          /\ closing' = IF connectionId \in DOMAIN connections
                         THEN closing \cup {connectionId} ELSE closing
     ELSE /\ heartbeat' = [heartbeat EXCEPT ![connectionId] = FALSE]
          /\ UNCHANGED closing
  /\ sent' = {}
  /\ received' = NoMessage
  /\ response' = NoResponse
  /\ UNCHANGED <<now, users, calls, matchVars, connections, rooms, connectionCounter,
                 rewardVars>>

\* The socket's pong event: the client answered the ping.
pong(connectionId) ==
  /\ connectionId \in DOMAIN connections \ closing
  /\ ~heartbeat[connectionId]
  /\ heartbeat' = [heartbeat EXCEPT ![connectionId] = TRUE]
  /\ sent' = {}
  /\ received' = NoMessage
  /\ response' = NoResponse
  /\ UNCHANGED <<now, users, calls, matchVars, connections, rooms, connectionCounter,
                 closing, rewardVars>>

\* connectionInfo.isAlive of a connection of the table.
isAlive(connectionId) ==
  connectionId \in DOMAIN heartbeat /\ heartbeat[connectionId]

\* The connections WebRTCService.cleanup terminates and deletes.
Inactive ==
  {c \in DOMAIN connections :
     now - connections[c].connectedAt > connectionMaxAge /\ ~isAlive(c)}

\* WebRTCService.cleanup, every minute.  Its second loop deletes rooms without
\* participants that are an hour old; the table holds no such room.
webrtcCleanup ==
  /\ connections' = [c \in DOMAIN connections \ Inactive |-> connections[c]]
  /\ closing' = closing \cup Inactive
  /\ sent' = {}
  /\ received' = NoMessage
  /\ response' = NoResponse
  /\ UNCHANGED <<now, users, calls, matchVars, rooms, connectionCounter, heartbeat,
                 rewardVars>>

\* Date.now() passes the age at which cleanup looks at a connection.
Elapse ==
  /\ now < Epoch + MaxTime
  /\ now' = now + connectionMaxAge + 1
  /\ sent' = {}
  /\ received' = NoMessage
  /\ response' = NoResponse
  /\ UNCHANGED <<users, calls, matchVars, connections, rooms, connectionCounter,
                 heartbeat, closing, rewardVars>>

\* ------------------------------------------------------------------ Init
\* A user document as registration creates it; skills, response history and
\* presence are profile data.
Volunteer(isActive, skills) ==
  [userType |-> "volunteer", isActive |-> isActive, isAvailable |-> TRUE,
   isOnline |-> TRUE, reputationScore |-> 100, skills |-> skills,
   averageResponseTime |-> 0, totalCalls |-> 0, hasWallet |-> TRUE]

Seeker(isActive) ==
  [userType |-> "blind", isActive |-> isActive, isAvailable |-> FALSE,
   isOnline |-> TRUE, reputationScore |-> 0, skills |-> {},
   averageResponseTime |-> 0, totalCalls |-> 0, hasWallet |-> FALSE]

InitServices ==
  /\ now = Epoch
  /\ waitingQueue = << >>
  /\ activeMatches = << >>
  /\ volunteerLastCall = << >>
  /\ callCount = << >>
  /\ calls = << >>
  /\ sm = EmptyBag
  /\ response = NoResponse
  /\ connections = << >>
  /\ rooms = << >>
  /\ connectionCounter = 0
  /\ heartbeat = << >>
  /\ closing = {}
  /\ sent = {}
  /\ received = NoMessage
  /\ txs = << >>
  /\ transactionQueue = << >>
  /\ failedTransactions = << >>
  /\ isProcessingQueue = FALSE
  /\ runningLoops = 0
  /\ consumer = Idle
  /\ ledger = << >>
  /\ serverKeypair = TRUE

\* One help-seeker and one volunteer have active accounts.
InitMatch ==
  /\ InitServices
  /\ users = [u \in UserIds |->
               IF u \in Seekers THEN Seeker(u = "b1")
               ELSE Volunteer(u = "v1", IF u = "v1" THEN {"reading"} ELSE {})]

\* timeoutMs of the request: 6 seconds (the schema allows 5 s to 5 min).
TimeoutChoices == {6000 \div UnitMs}

\* The matching queue under the clock: requests, retries, cancels, sweeps.
NextMatch ==
  \/ \E b \in Seekers, t \in TimeoutChoices : StartMatching(b, "reading", t)
  \/ \E r \in BagToSet(sm) : RetryMatch(r)
  \/ \E b \in Seekers : cancelMatching(b)
  \/ cleanup
  \/ \E v \in Volunteers, a \in BOOLEAN : UpdateAvailability(v, a)
  \/ Tick

SpecMatch == InitMatch /\ [][NextMatch]_vars

\* Two help-seekers and one volunteer have active accounts.
Init ==
  /\ InitServices
  /\ users = [u \in UserIds |->
               IF u \in Seekers THEN Seeker(TRUE)
               ELSE Volunteer(u = "v1", IF u = "v1" THEN {"reading"} ELSE {})]

\* The matching engine's requests at one instant of the clock.
Next ==
  \/ \E b \in Seekers, t \in TimeoutChoices : StartMatching(b, "reading", t)
  \/ \E b \in Seekers : cancelMatching(b)
  \/ \E r \in CallIds, v \in Volunteers : acceptMatch(r, v)
  \/ \E r \in CallIds, v \in Volunteers : declineMatch(r, v)
  \/ \E r \in CallIds, u \in UserIds : endCall(r, u)
  \/ \E v \in Volunteers, a \in BOOLEAN : UpdateAvailability(v, a)

Spec == Init /\ [][Next]_vars

RatingChoices == {Undefined, 5}

\* The outcomes of a transfer the call specification draws from.
CallOutcomes == {"ok"}

\* Calls from match to reward: the engine, the call routes and the reward queue.
NextCalls ==
  \/ \E b \in Seekers, t \in TimeoutChoices : StartMatching(b, "reading", t)
  \/ \E r \in CallIds, v \in Volunteers : acceptMatch(r, v)
  \/ \E r \in CallIds, u \in UserIds : endCall(r, u)
  \/ \E u \in UserIds, c \in CallIds, st \in CallStatuses : PutCall(u, c, [status |-> st])
  \/ \E u \in UserIds, c \in CallIds, rating \in RatingChoices : PostEndCall(u, c, rating)
  \/ \E o \in CallOutcomes : ConsumerStep(o)
  \/ ConsumerWake
  \/ retryFailedTransactions

SpecCalls == InitMatch /\ [][NextCalls]_vars

\* The status a call_status message of the relay specification carries, the
\* room its join_room messages name (the room of the first call) and the user
\* ids they give.
StatusChoices == {"active", "completed"}
RoomChoices == {1}
JoinUsers == {"b1", "v1", "b2"}

\* The signaling relay: sockets connect, join the rooms of the calls, report
\* call status and close.
NextRelay ==
  \/ \E b \in Seekers, t \in TimeoutChoices : StartMatching(b, "reading", t)
  \/ handleConnection
  \/ \E c \in ConnIds, r \in RoomChoices, u \in JoinUsers :
       handleJoinRoom(c, r, u, users[u].userType)
  \/ \E c \in ConnIds : handleLeaveRoom(c)
  \/ \E c \in ConnIds, st \in StatusChoices : handleCallStatus(c, st)
  \/ \E c \in ConnIds : handleDisconnection(c)

SpecRelay == InitMatch /\ [][NextRelay]_vars

\* Completed calls of a volunteer whose user document records a lifetime count
\* of calls: none yet, one short of the first milestone, or just at it.
LifetimeChoices == {0, 9, 10}

InitMilestone ==
  /\ InitServices
  /\ \E n \in LifetimeChoices :
       users = [u \in UserIds |->
                 IF u \in Seekers THEN Seeker(u = "b1")
                 ELSE [Volunteer(u = "v1", IF u = "v1" THEN {"reading"} ELSE {})
                         EXCEPT !.totalCalls = n]]

NextMilestone ==
  \/ \E b \in Seekers, t \in TimeoutChoices : StartMatching(b, "reading", t)
  \/ \E u \in UserIds, c \in CallIds : PutCall(u, c, [status |-> "completed"])
  \/ \E u \in UserIds, c \in CallIds, rating \in RatingChoices : PostEndCall(u, c, rating)
  \/ \E o \in CallOutcomes : ConsumerStep(o)
  \/ ConsumerWake

SpecMilestone == InitMilestone /\ [][NextMilestone]_vars

\* calculateRewardAmount on call data of every kind: durations at and around
\* the tier limits, ratings, and response times absent, zero and around 30 s.
DurationChoices ==
  {Undefined, 0, shortLimit, shortLimit + 1, 1850, mediumLimit, mediumLimit + 1}
RatingInputs == {Undefined, 1, 4, 5}
ResponseTimeChoices ==
  {Undefined, 0, 1, fastResponseLimit - 1, fastResponseLimit, fastResponseLimit + 1}

CallData(durationSeconds, rating, responseTimeMs) ==
  [status |-> "completed", durationSeconds |-> durationSeconds, rating |-> rating,
   responseTimeMs |-> responseTimeMs]

\* The service computes the reward of the call data; calls holds the data and
\* response the amount.
RewardAmount(callData) ==
  /\ calls' = MapSet(<< >>, 1, callData)
  /\ response' = [Reply("reward-amount", None, "computed")
                    EXCEPT !.count = calculateRewardAmount(callData)]
  /\ UNCHANGED <<now, users, matchVars, relayVars, rewardVars>>

NextAmount ==
  \E d \in DurationChoices, r \in RatingInputs, rt \in ResponseTimeChoices :
    RewardAmount(CallData(d, r, rt))

SpecAmount == InitMatch /\ [][NextAmount]_vars

\* The reward queue: rewards are queued, the consumer loop works them off with
\* every outcome of the balance query and the transfer, failed ones are retried.
NextRewards ==
  \/ \E u \in Seekers, v \in Volunteers : PostDistribute(u, v, shortCall, "bonus")
  \/ \E o \in Outcomes : ConsumerStep(o)
  \/ ConsumerWake
  \/ retryFailedTransactions
  \/ QueueTick

SpecRewards == InitMatch /\ [][NextRewards]_vars

\* The reward queue when every awaited call of the consumer loop settles (the
\* balance query and the transfer return or throw) and its timers fire.
SpecRewardsLive ==
  /\ InitMatch
  /\ [][NextRewards]_vars
  /\ WF_vars(\E o \in Outcomes : ConsumerStep(o))
  /\ WF_vars(ConsumerWake)

\* The room table: connections move between two rooms under ids of their
\* choice, set the room status by call_status messages, leave and close.
RoomIds == {1, 2}
RoomStatusChoices == {"active", "ready"}
RoomUsers == {"b1", "v1"}

NextRooms ==
  \/ handleConnection
  \/ \E c \in ConnIds, r \in RoomIds, u \in RoomUsers :
       handleJoinRoom(c, r, u, users[u].userType)
  \/ \E c \in ConnIds : handleLeaveRoom(c)
  \/ \E c \in ConnIds, st \in RoomStatusChoices : handleCallStatus(c, st)
  \/ \E c \in ConnIds : handleDisconnection(c)

SpecRooms == InitMatch /\ [][NextRooms]_vars

Monitored == 1..MaxMonitored

\* The relay's connection monitoring: heartbeat timers, pongs, the cleanup
\* sweep, and connections that join one room, leave it and close.
NextHeartbeat ==
  \/ connectionCounter < MaxMonitored /\ handleConnection
  \/ \E c \in Monitored, u \in RoomUsers :
       handleJoinRoom(c, 1, u, users[u].userType)
  \/ \E c \in Monitored : handleLeaveRoom(c)
  \/ \E c \in Monitored : handleDisconnection(c)
  \/ \E c \in Monitored : heartbeatInterval(c)
  \/ \E c \in Monitored : pong(c)
  \/ webrtcCleanup
  \/ Elapse

SpecHeartbeat == InitMatch /\ [][NextHeartbeat]_vars

\* Timers fire and the close event of a terminated socket is delivered.
SpecHeartbeatLive ==
  /\ SpecHeartbeat
  /\ \A c \in Monitored : WF_vars(heartbeatInterval(c))
  /\ \A c \in Monitored : WF_vars(c \in closing /\ handleDisconnection(c))

\* The relay's forwarding of offers, answers and ICE candidates between the
\* connections of a room, which two users join; a message names one of them,
\* a third user, or nobody.
SignalTypes == {"offer", "answer", "ice_candidate"}
SignalUsers == {"b1", "v1"}
TargetChoices == JoinUsers \cup {None}

NextSignal ==
  \/ handleConnection
  \/ \E c \in ConnIds, r \in RoomChoices, u \in SignalUsers :
       handleJoinRoom(c, r, u, users[u].userType)
  \/ \E c \in ConnIds : handleLeaveRoom(c)
  \/ \E c \in ConnIds, ty \in SignalTypes, t \in TargetChoices : handleSignal(c, ty, t)
  \/ \E c \in ConnIds : handleDisconnection(c)

SpecSignal == InitMatch /\ [][NextSignal]_vars

\* ------------------------------------------------------------------ claims
\* C1: a call whose status is completed or failed never changes status again,
\* and an active call never returns to pending.
C1_CallStatusOnlyMovesForward ==
  [][\A c \in DOMAIN calls :
       /\ (calls[c].status \in {"completed", "failed"}) =>
            (calls'[c].status = calls[c].status)
       /\ (calls[c].status = "active") => (calls'[c].status # "pending")]_vars

\* The completed call-completion reward transactions of a call.
CompletedCallRewards(c) ==
  {t \in DOMAIN txs : /\ txs[t].callId = c
                      /\ txs[t].type = "call_completion"
                      /\ txs[t].status = "completed"}

\* C2: no call ever has more than one completed call-completion reward
\* transaction.
C2_OneCompletedRewardPerCall ==
  \A c \in CallIds : Cardinality(CompletedCallRewards(c)) <= 1

\* C3: every room has at most two participants.
C3_RoomHasAtMostTwoParticipants ==
  \A r \in DOMAIN rooms : Cardinality(DOMAIN rooms[r].participants) <= 2

\* Connection c is the connection of a participant of its room, the room is
\* active (or connected) and another participant is in it.
InActiveRoomWithPeer(c) ==
  /\ c \in DOMAIN connections
  /\ connections[c].roomId \in DOMAIN rooms
  /\ LET room == rooms[connections[c].roomId]
     IN /\ room.status \in {"active", "connected"}
        /\ connections[c].userId \in DOMAIN room.participants
        /\ room.participants[connections[c].userId].connectionId = c
        /\ DOMAIN room.participants # {connections[c].userId}

\* C4: when the connection of a participant of an active room closes while the
\* other participant is in the room, the call of that room becomes failed with
\* a reason that says the user disconnected, and the other participant is sent
\* user_disconnected.
C4_DisconnectFailsCallAndNotifiesPeer ==
  [][\A c \in ConnIds :
       (InActiveRoomWithPeer(c) /\ c \notin DOMAIN connections') =>
         LET roomId == connections[c].roomId
             room == rooms[roomId]
         IN /\ \A k \in DOMAIN calls :
                 (calls[k].roomId = roomId) =>
                   /\ calls'[k].status = "failed"
                   /\ calls'[k].feedbackText = "User disconnected"
            /\ \A u \in DOMAIN room.participants \ {connections[c].userId} :
                 [to |-> room.participants[u].connectionId,
                  type |-> "user_disconnected"] \in sent']_vars

\* C5: a waiting entry leaves the queue only through a successful match of its
\* help-seeker, that help-seeker's cancel, a passed deadline (found by an
\* attempt or by the cleanup sweep) or the end of a request after its last
\* attempt; once a StartMatching request has returned, its help-seeker has no
\* entry; and after a cleanup sweep no entry is past its deadline.
C5_EntryLeavesQueueByMatchCancelOrTimeout ==
  [][
     /\ \A u \in DOMAIN waitingQueue :
          (u \notin DOMAIN waitingQueue') =>
            \/ response'.user = u /\ response'.result = "Matched"
            \/ response'.user = u /\ response'.kind = "cancel"
            \/ now > waitingQueue[u].timeout
            \/ response'.user = u /\ response'.attempt = maxAttempts
     /\ (response'.kind = "start") => (response'.user \notin DOMAIN waitingQueue')
     /\ (response'.kind = "cleanup") =>
           \A u \in DOMAIN waitingQueue' : ~(now > waitingQueue'[u].timeout)
    ]_vars

\* C6: a StartMatching request that fails with AlreadyQueued leaves the waiting
\* queue, and with it the existing entry of that help-seeker, unchanged.
C6_AlreadyQueuedKeepsEntry ==
  [][response'.result = AlreadyQueuedMsg =>
       /\ response'.user \in DOMAIN waitingQueue'
       /\ waitingQueue' = waitingQueue]_vars

\* C7: when no volunteer is available, a request fails on its first attempt:
\* no request is left waiting for a second attempt after an attempt that found
\* no available volunteer.
C7_NoVolunteersFailsOnFirstAttempt ==
  [][(Len(getActiveVolunteers) = 0) =>
       \A r \in BagToSet(sm') :
         (r.attempt = 1) => (CopiesIn(r, sm') <= CopiesIn(r, sm))]_vars

\* C8: a request makes at most three attempts, and an attempt that begins
\* after the request's deadline ends the request with Timeout: the request
\* does not wait for another attempt.
C8_TimeoutAbortsAtOnce ==
  [][
     /\ response'.attempt <= maxAttempts
     /\ \A r \in BagToSet(sm) :
          (CopiesIn(r, sm') < CopiesIn(r, sm) /\ now > r.timeout) =>
            /\ response'.result = TimeoutMsg
            /\ response'.user = r.user
            /\ BagCardinality(sm') < BagCardinality(sm)
    ]_vars

\* The matches of the active-match table whose call is pending or active.
OpenMatches ==
  {r \in DOMAIN activeMatches :
     /\ activeMatches[r].callId \in DOMAIN calls
     /\ calls[activeMatches[r].callId].status \in {"pending", "active"}}

\* C9: a volunteer is assigned to at most one pending or active match at any
\* time.
C9_OneOpenMatchPerVolunteer ==
  \A r1, r2 \in OpenMatches :
    (activeMatches[r1].volunteerUserId = activeMatches[r2].volunteerUserId) => (r1 = r2)

\* C10: a request is matched only with a candidate whose score, by the scoring
\* formula, is strictly positive and maximal among the candidates; and it fails
\* for want of a suitable volunteer only when no candidate's score is positive.
C10_SelectsMaximalPositiveScore ==
  [][
     /\ (response'.result = "Matched") =>
          /\ RawScore(response'.volunteer, response'.helpCategory) # NaN
          /\ RawScore(response'.volunteer, response'.helpCategory) > 0
          /\ \A w \in Range(getActiveVolunteers) :
               RawScore(w, response'.helpCategory)
                 <= RawScore(response'.volunteer, response'.helpCategory)
     /\ (response'.result = NoSuitableMsg) =>
          \A w \in Range(getActiveVolunteers) :
            RawScore(w, response'.helpCategory) <= 0
    ]_vars

\* C11: an acceptMatch on a room whose match is already accepted is rejected
\* with MATCH_ALREADY_ACCEPTED and changes neither the match nor the call.
C11_SecondAcceptIsRejected ==
  [][\A r \in DOMAIN activeMatches :
       (/\ activeMatches[r].status = "accepted"
        /\ response'.kind = "accept"
        /\ response'.roomId = r) =>
         /\ response'.result = "MATCH_ALREADY_ACCEPTED"
         /\ activeMatches' = activeMatches
         /\ calls' = calls]_vars

\* C12: after a declineMatch (the match leaves the table and its call is
\* failed), while the rematch of the help-seeker is in progress the help-seeker
\* has an entry in the waiting queue, with status rematching and a deadline 60
\* seconds after the decline.
C12_RematchKeepsWaitingEntry ==
  [][\A r \in DOMAIN activeMatches :
       (/\ r \notin DOMAIN activeMatches'
        /\ calls'[activeMatches[r].callId].status = "failed"
        /\ \E q \in BagToSet(sm') :
             q.kind = "rematch" /\ q.user = activeMatches[r].blindUserId) =>
         /\ activeMatches[r].blindUserId \in DOMAIN waitingQueue'
         /\ waitingQueue'[activeMatches[r].blindUserId].status = "rematching"
         /\ waitingQueue'[activeMatches[r].blindUserId].timeout = now + rematchTimeout]_vars

C14_TerminalCallStatusUpdatesCall ==
  [][(/\ received'.type = "call_status"
      /\ received'.from \in DOMAIN connections
      /\ connections[received'.from].roomId \in DOMAIN rooms
      /\ rooms'[connections[received'.from].roomId].status
           \in {"completed", "failed", "ended"}
      /\ rooms'[connections[received'.from].roomId].status
           # rooms[connections[received'.from].roomId].status) =>
       LET roomId == connections[received'.from].roomId
       IN /\ \A k \in DOMAIN calls :
               (calls[k].roomId = roomId) =>
                 (calls'[k].status =
                    IF rooms'[roomId].status = "completed" THEN "completed"
                    ELSE "failed")
          /\ \A m \in sent' : m.type = "call_status" /\ m.to # received'.from]_vars

\* C15: no reward transaction has a retryCount above the maximum, and one whose
\* retryCount has reached the maximum is in the failed set and neither in the
\* queue nor in the consumer's hand.
C15_RetryCountWithinCeiling ==
  \A t \in DOMAIN txs :
    /\ txs[t].retryCount <= maxRetries
    /\ (txs[t].retryCount >= maxRetries) =>
         /\ t \in Range(failedTransactions)
         /\ t \notin Range(transactionQueue)
         /\ consumer.tx # t

\* A transaction has used up its retries and lies in the failed set.
C15_TransactionExhausted ==
  \E t \in DOMAIN txs :
    txs[t].retryCount = maxRetries /\ t \in Range(failedTransactions)

Settled(t) ==
  /\ t \in DOMAIN txs
  /\ txs[t].status = "completed" \/ t \in Range(failedTransactions)
  /\ t \notin Range(transactionQueue)
  /\ consumer.tx # t

\* C17: with the funding account configured, every queued reward transaction
\* eventually is completed or in the failed set for good, and the consumer loop
\* comes to rest with an empty queue again and again, whatever outcomes the
\* balance queries and transfers have.
C17_EveryRewardSettles ==
  /\ \A t \in TxIds : (t \in DOMAIN txs) ~> [](Settled(t))
  /\ []<>(consumer = Idle /\ ~isProcessingQueue /\ Len(transactionQueue) = 0)

\* Two transactions have settled, one paid and one given up after failures, and
\* the consumer is at rest.
C17_PaidAndGivenUp ==
  /\ consumer = Idle /\ ~isProcessingQueue /\ Len(transactionQueue) = 0
  /\ \E t \in DOMAIN txs : Settled(t) /\ txs[t].status = "completed" /\ txs[t].retryCount = 0
  /\ \E t \in DOMAIN txs : Settled(t) /\ txs[t].status = "queued"

\* C18: when endCall marks the call of a match completed (the match leaves the
\* table), a call_completion reward transaction for that call and its
\* volunteer is queued.
C18_EndCallQueuesReward ==
  [][\A r \in DOMAIN activeMatches :
       (/\ r \notin DOMAIN activeMatches'
        /\ calls'[activeMatches[r].callId].status = "completed") =>
         \E t \in DOMAIN txs' \ DOMAIN txs :
           /\ txs'[t].callId = activeMatches[r].callId
           /\ txs'[t].type = "call_completion"
           /\ txs'[t].userId = activeMatches[r].volunteerUserId]_vars

\* The counts of lifetime calls that earn a milestone reward, and the reward.
MilestoneCounts == {10, 50, 100, 500, 1000}

MilestoneAmount(n) ==
  CASE n = 10 -> calls10 [] n = 50 -> calls50 [] n = 100 -> calls100
    [] n = 500 -> calls500 [] n = 1000 -> calls1000 [] OTHER -> 0

\* The transactions of the given type that a step queues for call c.
NewRewards(c, type) ==
  {t \in DOMAIN txs' \ DOMAIN txs : txs'[t].callId = c /\ txs'[t].type = type}

TierAmount(d) ==
  IF d = Undefined THEN longCall
  ELSE IF d <= 1800 THEN shortCall
  ELSE IF d <= 3600 THEN mediumCall
  ELSE longCall

C21_SingleConsumerLoop ==
  /\ runningLoops <= 1
  /\ isProcessingQueue <=> (runningLoops = 1)
  /\ (consumer # Idle) => (runningLoops = 1)

\* The failed-transaction retry has called processTransactionQueue while the
\* loop holds a transaction and more wait in the queue.
C21_CalledWhileRunning ==
  /\ response.kind = "retry-failed"
  /\ runningLoops = 1
  /\ consumer.pc = "hand"
  /\ Len(transactionQueue) > 0

\* C22: no room of the room table has zero participants.
C22_NoEmptyRoom ==
  \A r \in DOMAIN rooms : DOMAIN rooms[r].participants # {}

\* A connection has left the other room by joining this one, and the room it
\* left, now without participants, is gone from the table.
C22_RoomRemovedOnRejoin ==
  /\ received.type = "join_room"
  /\ [to |-> received.from, type |-> "room_left"] \in sent
  /\ Cardinality(DOMAIN rooms) = 1

\* C23: a room with status waiting has at most one participant and a room with
\* status ready has exactly two.
C23_StatusMatchesParticipantCount ==
  \A r \in DOMAIN rooms :
    /\ (rooms[r].status = "waiting") => (Cardinality(DOMAIN rooms[r].participants) <= 1)
    /\ (rooms[r].status = "ready") => (Cardinality(DOMAIN rooms[r].participants) = 2)

\* Whether some room has a participant entry of this connection.
InSomeRoom(c) ==
  \E r \in DOMAIN rooms :
    \E u \in DOMAIN rooms[r].participants :
      rooms[r].participants[u].connectionId = c

\* C24: a connection the heartbeat terminated for an unanswered ping is
\* eventually out of the connection table and of its room, with its timer
\* stopped.
C24_HeartbeatTimeoutEndsAsDisconnect ==
  \A c \in Monitored :
    (c \in closing /\ c \in DOMAIN connections /\ c \notin DOMAIN heartbeat)
      ~> (c \notin DOMAIN connections /\ c \notin DOMAIN heartbeat /\ ~InSomeRoom(c))

\* C27: every participant entry refers to a connection of the table that has
\* that room and that user id, and every connection with a room is the
\* participant of that room under its user id.
C27_RoomsAndConnectionsAgree ==
  /\ \A r \in DOMAIN rooms :
       \A u \in DOMAIN rooms[r].participants :
         LET c == rooms[r].participants[u].connectionId
         IN /\ c \in DOMAIN connections
            /\ connections[c].roomId = r
            /\ connections[c].userId = u
  /\ \A c \in DOMAIN connections :
       (connections[c].roomId # NoRoom) =>
         (/\ connections[c].roomId \in DOMAIN rooms
          /\ connections[c].userId \in DOMAIN rooms[connections[c].roomId].participants
          /\ rooms[connections[c].roomId].participants[connections[c].userId].connectionId = c)

\* C25: once cancelMatching has succeeded for a help-seeker, the next attempt
\* of that help-seeker's request that was waiting between attempts creates no
\* call and selects no volunteer.
C25_CancelledRequestCreatesNoCall ==
  [][
     \A r \in BagToSet(sm) :
       (/\ response.kind = "cancel"
        /\ response.user = r.user
        /\ CopiesIn(r, sm') < CopiesIn(r, sm)) =>
         (/\ calls' = calls
          /\ response'.result # "Matched")
    ]_vars

\* C26: a transaction is transferred at most once, and no transaction with
\* status completed is on the queue, in the consumer's hand or in the failed
\* set.
C26_CompletedIsNeverSubmittedAgain ==
  \A t \in DOMAIN txs :
    /\ ledger[t] <= 1
    /\ (txs[t].status = "completed") =>
         /\ t \notin Range(transactionQueue)
         /\ t \notin Range(failedTransactions)
         /\ consumer.tx # t

\* C28: every transaction of the failed set has retryCount equal to the
\* maximum, and retryFailedTransactions moves none of them: it returns count 0
\* and leaves the failed set, the queue and the transactions as they were.
C28_FailedSetIsNeverRetried ==
  [][
     /\ \A t \in Range(failedTransactions') : txs'[t].retryCount = maxRetries
     /\ (response'.kind = "retry-failed") =>
          /\ response'.count = 0
          /\ failedTransactions' = failedTransactions
          /\ txs' = txs
          /\ \A t \in Range(failedTransactions) :
               t \notin Range(transactionQueue') /\ consumer'.tx # t
    ]_vars

\* retryFailedTransactions has returned 0 with every transaction in the failed
\* set.
C28_RetryFoundAllGivenUp ==
  /\ response.kind = "retry-failed"
  /\ response.count = 0
  /\ Len(failedTransactions) = MaxTx

\* C29: no help-seeker is in more than one entry of the active-match table.
C29_OneMatchPerHelpSeeker ==
  \A b \in Seekers :
    Cardinality({r \in DOMAIN activeMatches : activeMatches[r].blindUserId = b}) <= 1

\* C30: every entry of the active-match table refers to a call whose status is
\* pending or active.
C30_MatchesReferToOpenCalls ==
  \A r \in DOMAIN activeMatches :
    /\ activeMatches[r].callId \in DOMAIN calls
    /\ calls[activeMatches[r].callId].status \in {"pending", "active"}

====
